---- MODULE Spec2Model ----
(***************************************************************************)
(* Model of the audio-routing core of src-tauri/driver/                    *)
(* SendinBeatsAudioDriver.c: the PID-to-channel routing table              *)
(* (MapPIDToChannel, UnmapPID), the per-channel buffer bank                *)
(* (RouteAudioToChannel) and the output mix (PlugIn_DoIOOperation).        *)
(*                                                                         *)
(* C arrays are functions over 0 .. n-1.  A float sample is modelled as    *)
(* an integer, so sums are exact.  The three array sizes are scaled down   *)
(* from the source (16, 64, 1024) to keep the state space finite; every    *)
(* definition uses them by name only.                                      *)
(***************************************************************************)
EXTENDS Integers, Sequences, FiniteSets, TLC

\* Program constants, scaled down (source: 16, 64, 1024).
MAX_CHANNELS == 2
MAX_PID_MAPPINGS == 2
BUFFER_FRAMES == 2

\* Bound of the environment: a deposited sample is in 1 .. MaxSample.
MaxSample == 2

\* Process ids: one more than the table can hold.
Pids == 1 .. (MAX_PID_MAPPINGS + 1)
\* Channel arguments: every valid channel, and one value out of range on
\* each side (MapPIDToChannel takes any int).
ChannelArgs == -1 .. MAX_CHANNELS
Chans == 0 .. (MAX_CHANNELS - 1)
Frames == 0 .. (BUFFER_FRAMES - 1)
\* A chunk, and a host buffer, holds up to one frame more than a channel
\* buffer.
MaxFrames == BUFFER_FRAMES + 1
Samples == 1 .. MaxSample

\* float[n] with every element in S
Arr(n, S) == [0 .. (n - 1) -> S]
\* The chunks a caller may pass to RouteAudioToChannel: `frames` samples.
Chunks == UNION {Arr(n, Samples) : n \in 0 .. MaxFrames}
Length(a) == Cardinality(DOMAIN a)

VARIABLES
    gMappings,        \* PIDMapping gMappings[MAX_PID_MAPPINGS]
    gMappingCount,    \* int gMappingCount
    gChannelBuffers,  \* float gChannelBuffers[MAX_CHANNELS][BUFFER_FRAMES]
    call,             \* the call that returned last: its arguments and results
    scn,              \* the calls of a mix scenario made so far (MixSpec)
    gMappingMutex,    \* pthread_mutex_t gMappingMutex: the threads holding it
    gBufferMutex,     \* pthread_mutex_t gBufferMutex: the threads holding it
    thr,              \* per producer thread: where it is, and its locals
    io,               \* the same for the host's I/O thread
    stable,           \* history: the bank as the last complete memcpy left it
    committed         \* history: the table as the last complete call left it

\* What the calling threads add to the driver's state (ConcSpec).
conc == <<gMappingMutex, gBufferMutex, thr, io, stable, committed>>

vars == <<gMappings, gMappingCount, gChannelBuffers, call, scn, conc>>

\* A zeroed PIDMapping (static storage, and the memset of line 158).
ZeroMapping == [pid |-> 0, channel |-> 0, active |-> 0]

\* No call yet.  ret is what the call returns ("void" for a void function),
\* log the line it prints, out the output buffer as DoIOOperation left it,
\* wasActive whether MapPIDToChannel found its process active.
NoCall == [op |-> "none", pid |-> 0, channel |-> 0, buffer |-> <<>>,
           frames |-> 0, out |-> <<>>, isNull |-> FALSE, ret |-> "void",
           log |-> "", wasActive |-> FALSE]

NoScenario == [phase |-> "off", regs |-> <<>>, deps |-> <<>>]

\* The state AudioDriverPlugInOpen leaves: table and bank zeroed.
Opened ==
    /\ gMappings = [i \in 0 .. (MAX_PID_MAPPINGS - 1) |-> ZeroMapping]
    /\ gMappingCount = 0
    /\ gChannelBuffers = [c \in Chans |-> [i \in Frames |-> 0]]
    /\ call = NoCall

\* One producer thread per process, named by its pid; the host's I/O
\* thread.
Producers == 1 .. MAX_CHANNELS
IoThread == 0

IdleThread == [pc |-> "idle", pid |-> 0, channel |-> 0, frames |-> 0,
               ch |-> -1, i |-> 0]
IdleIo == [pc |-> "idle", frames |-> 0, out |-> <<>>]

\* No thread is in a call; both mutexes are PTHREAD_MUTEX_INITIALIZER.
ThreadsIdle ==
    /\ gMappingMutex = {}
    /\ gBufferMutex = {}
    /\ thr = [t \in Producers |-> IdleThread]
    /\ io = IdleIo
    /\ stable = [c \in Chans |-> [i \in Frames |-> 0]]
    /\ committed = <<[i \in 0 .. (MAX_PID_MAPPINGS - 1) |-> ZeroMapping], 0>>

Init == Opened /\ ThreadsIdle /\ scn = NoScenario

----------------------------------------------------------------------------
\* The routing table.

\* ScanPID that passes over inactive entries.
RECURSIVE ScanPID_ActiveOnly(_, _, _, _)
ScanPID_ActiveOnly(maps, count, pid, i) ==
    IF i >= count THEN -1
    ELSE IF maps[i].pid = pid /\ maps[i].active # 0 THEN i
    ELSE ScanPID_ActiveOnly(maps, count, pid, i + 1)

\* for (i = 0; i < gMappingCount; i++) if (gMappings[i].pid == pid) ...
\* the index of the first entry with this pid, -1 when the loop ends.
RECURSIVE ScanPID(_, _, _, _)
ScanPID(maps, count, pid, i) ==
    IF i >= count THEN -1
    ELSE IF maps[i].pid = pid THEN i
    ELSE ScanPID(maps, count, pid, i + 1)

\* MapResult without the scan for an existing entry: every call appends.
MapResult_NoScan(maps, count, pid, channel) ==
    IF count < MAX_PID_MAPPINGS
    THEN [maps |-> [maps EXCEPT ![count] =
                       [pid |-> pid, channel |-> channel, active |-> 1]],
          count |-> count + 1, log |-> "Added"]
    ELSE [maps |-> maps, count |-> count, log |-> ""]

\* MapResult without the capacity test: a full table's last entry is
\* overwritten.
MapResult_OverwritesLast(maps, count, pid, channel) ==
    LET i == ScanPID(maps, count, pid, 0) IN
    IF i >= 0
    THEN [maps |-> [maps EXCEPT ![i].channel = channel, ![i].active = 1],
          count |-> count, log |-> "Updated"]
    ELSE IF count < MAX_PID_MAPPINGS
    THEN [maps |-> [maps EXCEPT ![count] =
                       [pid |-> pid, channel |-> channel, active |-> 1]],
          count |-> count + 1, log |-> "Added"]
    ELSE [maps |-> [maps EXCEPT ![MAX_PID_MAPPINGS - 1] =
                       [pid |-> pid, channel |-> channel, active |-> 1]],
          count |-> count, log |-> "Added"]

\* The table MapPIDToChannel leaves, and the line it prints.
MapResult(maps, count, pid, channel) ==
    LET i == ScanPID(maps, count, pid, 0) IN
    IF i >= 0
    THEN [maps |-> [maps EXCEPT ![i].channel = channel, ![i].active = 1],
          count |-> count, log |-> "Updated"]
    ELSE IF count < MAX_PID_MAPPINGS
    THEN [maps |-> [maps EXCEPT ![count] =
                       [pid |-> pid, channel |-> channel, active |-> 1]],
          count |-> count + 1, log |-> "Added"]
    ELSE [maps |-> maps, count |-> count, log |-> ""]

\* UnmapResult without the pid comparison: the loop stops at entry 0.
UnmapResult_NoPidCheck(maps, count, pid) ==
    IF count > 0
    THEN [maps |-> [maps EXCEPT ![0].active = 0], log |-> "Unmapped"]
    ELSE [maps |-> maps, log |-> ""]

\* The table UnmapPID leaves, and the line it prints.
UnmapResult(maps, count, pid) ==
    LET i == ScanPID(maps, count, pid, 0) IN
    IF i >= 0
    THEN [maps |-> [maps EXCEPT ![i].active = 0], log |-> "Unmapped"]
    ELSE [maps |-> maps, log |-> ""]

\* LookupChannel without the test of the active flag.
RECURSIVE LookupChannel_IgnoresActive(_, _, _, _)
LookupChannel_IgnoresActive(maps, count, pid, i) ==
    IF i >= count THEN -1
    ELSE IF maps[i].pid = pid THEN maps[i].channel
    ELSE LookupChannel_IgnoresActive(maps, count, pid, i + 1)

\* The lookup loop of RouteAudioToChannel: the channel of the first active
\* entry with this pid, -1 when there is none.
RECURSIVE LookupChannel(_, _, _, _)
LookupChannel(maps, count, pid, i) ==
    IF i >= count THEN -1
    ELSE IF maps[i].pid = pid /\ maps[i].active # 0 THEN maps[i].channel
    ELSE LookupChannel(maps, count, pid, i + 1)

----------------------------------------------------------------------------
\* The buffer bank.

\* ClampFrames without the clamp.
ClampFrames_None(frames) == frames

\* if (frames > BUFFER_FRAMES) frames = BUFFER_FRAMES;
ClampFrames(frames) == IF frames > BUFFER_FRAMES THEN BUFFER_FRAMES ELSE frames

\* if (ch >= 0 && ch < MAX_CHANNELS)
ChannelInRange(ch) == ch >= 0 /\ ch < MAX_CHANNELS

\* Memcpy with the byte count `frames` (sizeof(float) = 4 left out).
Memcpy_NoSizeof(bank, ch, buffer, frames) ==
    [c \in Chans |-> [i \in Frames |->
        LET off == (c - ch) * BUFFER_FRAMES + i IN
        IF 0 <= off /\ off < frames \div 4 THEN buffer[off] ELSE bank[c][i]]]

\* memcpy(gChannelBuffers[ch], buffer, sizeof(float) * frames): the bank is
\* one block of MAX_CHANNELS * BUFFER_FRAMES floats, row ch starting at
\* offset ch * BUFFER_FRAMES; the copy writes `frames` consecutive floats.
Memcpy(bank, ch, buffer, frames) ==
    [c \in Chans |-> [i \in Frames |->
        LET off == (c - ch) * BUFFER_FRAMES + i IN
        IF 0 <= off /\ off < frames THEN buffer[off] ELSE bank[c][i]]]

\* The bank RouteAudioToChannel leaves.
RouteResult(maps, count, bank, pid, buffer, frames) ==
    LET n  == ClampFrames(frames)
        ch == LookupChannel(maps, count, pid, 0)
    IN  IF ChannelInRange(ch)
        THEN [ch |-> ch, frames |-> n, bank |-> Memcpy(bank, ch, buffer, n)]
        ELSE [ch |-> ch, frames |-> n, bank |-> bank]

----------------------------------------------------------------------------
\* The output mix.

\* framesToCopy = inIOBufferFrameSize < BUFFER_FRAMES ? inIOBufferFrameSize
\*                                                    : BUFFER_FRAMES
FramesToCopy(inIOBufferFrameSize) ==
    IF inIOBufferFrameSize < BUFFER_FRAMES THEN inIOBufferFrameSize
    ELSE BUFFER_FRAMES

\* Memset that zeroes nothing.
Memset_None(out, n) == out

\* memset(outputBuffer, 0, sizeof(float) * framesToCopy)
Memset(out, n) == [i \in DOMAIN out |-> IF i < n THEN 0 ELSE out[i]]

\* AddChannel with = for +=.
AddChannel_Assigns(out, row, n) ==
    [i \in DOMAIN out |-> IF i < n THEN row[i] ELSE out[i]]

\* for (i = 0; i < framesToCopy; i++) outputBuffer[i] += gChannelBuffers[ch][i]
AddChannel(out, row, n) ==
    [i \in DOMAIN out |-> IF i < n THEN out[i] + row[i] ELSE out[i]]

\* for (ch = 0; ch < MAX_CHANNELS; ch++) ...
RECURSIVE MixLoop(_, _, _, _)
MixLoop(out, bank, ch, n) ==
    IF ch >= MAX_CHANNELS THEN out
    ELSE MixLoop(AddChannel(out, bank[ch], n), bank, ch + 1, n)

\* The output buffer PlugIn_DoIOOperation leaves.
MixResult(bank, out, inIOBufferFrameSize) ==
    LET n == FramesToCopy(inIOBufferFrameSize) IN
    MixLoop(Memset(out, n), bank, 0, n)

----------------------------------------------------------------------------
\* The calls, each one atomic (the callers take turns).

MapPIDToChannel(pid, channel) ==
    LET r == MapResult(gMappings, gMappingCount, pid, channel) IN
    /\ gMappings' = r.maps
    /\ gMappingCount' = r.count
    /\ call' = [NoCall EXCEPT
                   !.op = "MapPIDToChannel", !.pid = pid,
                   !.channel = channel, !.log = r.log,
                   !.wasActive = \E i \in 0 .. (gMappingCount - 1) :
                       gMappings[i].pid = pid /\ gMappings[i].active # 0]
    /\ UNCHANGED gChannelBuffers

\* UnmapPID that removes the entry it finds and closes the gap.
UnmapPID_Compacts(pid) ==
    LET i == ScanPID(gMappings, gMappingCount, pid, 0) IN
    /\ gMappings' =
          IF i < 0 THEN gMappings
          ELSE [j \in 0 .. (MAX_PID_MAPPINGS - 1) |->
                   IF j < i THEN gMappings[j]
                   ELSE IF j < gMappingCount - 1 THEN gMappings[j + 1]
                   ELSE ZeroMapping]
    /\ gMappingCount' = IF i < 0 THEN gMappingCount ELSE gMappingCount - 1
    /\ call' = [NoCall EXCEPT !.op = "UnmapPID", !.pid = pid,
                              !.log = IF i < 0 THEN "" ELSE "Unmapped"]
    /\ UNCHANGED gChannelBuffers

\* UnmapPID that also zeroes the buffer of the channel it unmaps.
UnmapPID_ClearsBuffer(pid) ==
    LET r  == UnmapResult(gMappings, gMappingCount, pid)
        ch == LookupChannel(gMappings, gMappingCount, pid, 0)
    IN
    /\ gMappings' = r.maps
    /\ call' = [NoCall EXCEPT !.op = "UnmapPID", !.pid = pid, !.log = r.log]
    /\ gChannelBuffers' = [c \in Chans |->
                              IF c = ch THEN [i \in Frames |-> 0]
                              ELSE gChannelBuffers[c]]
    /\ UNCHANGED gMappingCount

UnmapPID(pid) ==
    LET r == UnmapResult(gMappings, gMappingCount, pid) IN
    /\ gMappings' = r.maps
    /\ call' = [NoCall EXCEPT !.op = "UnmapPID", !.pid = pid, !.log = r.log]
    /\ UNCHANGED <<gMappingCount, gChannelBuffers>>

RouteAudioToChannel(pid, buffer, frames) ==
    LET r == RouteResult(gMappings, gMappingCount, gChannelBuffers,
                         pid, buffer, frames) IN
    /\ gChannelBuffers' = r.bank
    /\ call' = [NoCall EXCEPT !.op = "RouteAudioToChannel", !.pid = pid,
                              !.buffer = buffer, !.frames = frames]
    /\ UNCHANGED <<gMappings, gMappingCount>>

\* ioMainBuffer is the host's buffer, with whatever it held before; a
\* NULL ioMainBuffer returns at once (line 271).
PlugIn_DoIOOperation(inIOBufferFrameSize, ioMainBuffer, isNull) ==
    /\ call' = IF isNull
               THEN [NoCall EXCEPT !.op = "PlugIn_DoIOOperation",
                                   !.isNull = TRUE,
                                   !.ret = "kAudioHardwareNoError"]
               ELSE [NoCall EXCEPT !.op = "PlugIn_DoIOOperation",
                                   !.frames = inIOBufferFrameSize,
                                   !.out = MixResult(gChannelBuffers,
                                                     ioMainBuffer,
                                                     inIOBufferFrameSize),
                                   !.ret = "kAudioHardwareNoError"]
    /\ UNCHANGED <<gMappings, gMappingCount, gChannelBuffers>>

----------------------------------------------------------------------------
\* Spec: every call, by any process, with any channel argument; the chunks
\* deposited hold one sample value.

\* The host's buffers: MaxFrames floats, all zero or all an earlier sample.
HostBuffers == {[i \in 0 .. (MaxFrames - 1) |-> v] : v \in {0, MaxSample}}

FlatChunks == {[i \in 0 .. (n - 1) |-> MaxSample] : n \in 0 .. MaxFrames}

Next ==
    \/ \E pid \in Pids, channel \in ChannelArgs :
          MapPIDToChannel(pid, channel) /\ UNCHANGED <<scn, conc>>
    \/ \E pid \in Pids : UnmapPID(pid) /\ UNCHANGED <<scn, conc>>
    \/ \E pid \in Pids, buffer \in FlatChunks :
          RouteAudioToChannel(pid, buffer, Length(buffer)) /\ UNCHANGED <<scn, conc>>
    \/ \E n \in 0 .. MaxFrames, buf \in HostBuffers, isNull \in BOOLEAN :
          PlugIn_DoIOOperation(n, buf, isNull) /\ UNCHANGED <<scn, conc>>

Spec == Init /\ [][Next]_vars

----------------------------------------------------------------------------
\* AudioSpec: every call, with every chunk over Samples; one process per
\* channel, and valid channel arguments.

AudioPids == 1 .. MAX_CHANNELS

AudioNext ==
    \/ \E pid \in AudioPids, channel \in Chans :
          MapPIDToChannel(pid, channel) /\ UNCHANGED <<scn, conc>>
    \/ \E pid \in AudioPids : UnmapPID(pid) /\ UNCHANGED <<scn, conc>>
    \/ \E pid \in AudioPids, buffer \in Chunks :
          RouteAudioToChannel(pid, buffer, Length(buffer)) /\ UNCHANGED <<scn, conc>>
    \/ \E n \in 0 .. MaxFrames, buf \in HostBuffers, isNull \in BOOLEAN :
          PlugIn_DoIOOperation(n, buf, isNull) /\ UNCHANGED <<scn, conc>>

AudioSpec == Init /\ [][AudioNext]_vars

----------------------------------------------------------------------------
\* MixSpec: a mix scenario.  From the opened driver, processes register to
\* channels of their own, each registered process deposits one chunk, in
\* any order, and then the host asks for the mix.  scn records the calls.

MixInit == Opened /\ ThreadsIdle /\ scn = [NoScenario EXCEPT !.phase = "setup"]

ScnPids == {scn.regs[k].pid : k \in DOMAIN scn.regs}
ScnChannels == {scn.regs[k].channel : k \in DOMAIN scn.regs}
ScnDepositors == {scn.deps[k].pid : k \in DOMAIN scn.deps}

ScnRegister(pid, channel) ==
    /\ scn.phase = "setup"
    /\ pid \notin ScnPids
    /\ channel \notin ScnChannels
    /\ MapPIDToChannel(pid, channel)
    /\ scn' = [scn EXCEPT !.regs = Append(@, [pid |-> pid,
                                              channel |-> channel])]
    /\ UNCHANGED conc

ScnDeposit(pid, buffer) ==
    /\ scn.phase = "setup"
    /\ pid \in ScnPids \ ScnDepositors
    /\ RouteAudioToChannel(pid, buffer, Length(buffer))
    /\ scn' = [scn EXCEPT !.deps = Append(@, [pid |-> pid,
                                              buffer |-> buffer])]
    /\ UNCHANGED conc

ScnProduce(n, buf) ==
    /\ scn.phase = "setup"
    /\ ScnPids # {}
    /\ ScnDepositors = ScnPids
    /\ PlugIn_DoIOOperation(n, buf, FALSE)
    /\ scn' = [scn EXCEPT !.phase = "done"]
    /\ UNCHANGED conc

MixNext ==
    \/ \E pid \in Pids, channel \in Chans : ScnRegister(pid, channel)
    \/ \E pid \in Pids, buffer \in Chunks : ScnDeposit(pid, buffer)
    \/ \E n \in 0 .. MaxFrames, buf \in HostBuffers : ScnProduce(n, buf)

MixSpec == MixInit /\ [][MixNext]_vars

----------------------------------------------------------------------------
\* ConcSpec: the calls as threads make them.  A call is a step of its own;
\* so is each pthread_mutex_lock, which a thread takes when no thread holds
\* the mutex and waits at otherwise; so is each store to a field of the
\* table and each sample memcpy copies.  Any producer registers and
\* unregisters any process; producer t deposits as process t, chunks of
\* BUFFER_FRAMES samples, all its own sample value.

ThreadChunk(t) == [i \in Frames |-> IF t = 1 THEN 1 ELSE MaxSample]
\* The host's buffer, holding samples of an earlier cycle.
StaleBuffer == [i \in 0 .. (MaxFrames - 1) |-> MaxSample]

table == <<gMappings, gMappingCount>>

\* A thread calls MapPIDToChannel(pid, channel).
MapCall(t, pid, channel) ==
    /\ thr[t].pc = "idle"
    /\ thr' = [thr EXCEPT ![t] = [IdleThread EXCEPT !.pc = "map_lock",
                                                    !.pid = pid,
                                                    !.channel = channel]]
    /\ UNCHANGED <<table, gChannelBuffers, call, scn, gMappingMutex,
                   gBufferMutex, io, stable, committed>>

\* MapPIDToChannel: pthread_mutex_lock(&gMappingMutex)
MapLock(t) ==
    /\ thr[t].pc = "map_lock"
    /\ gMappingMutex = {}
    /\ gMappingMutex' = {t}
    /\ thr' = [thr EXCEPT ![t] = [@ EXCEPT !.pc = "map_scan"]]
    /\ UNCHANGED <<table, gChannelBuffers, call, scn, gBufferMutex, io,
                   stable, committed>>

\* MapPIDToChannel: the scan for the pid and the test for a free slot.
\* ch holds the slot to write, -1 when there is none; i its first store:
\* an entry found keeps its pid (store 1 is skipped) and the count.
MapScan(t) ==
    /\ thr[t].pc = "map_scan"
    /\ LET found == ScanPID(gMappings, gMappingCount, thr[t].pid, 0) IN
          thr' = [thr EXCEPT ![t] =
                     IF found >= 0
                     THEN [@ EXCEPT !.pc = "map_store", !.ch = found, !.i = 2]
                     ELSE IF gMappingCount < MAX_PID_MAPPINGS
                     THEN [@ EXCEPT !.pc = "map_store", !.ch = gMappingCount,
                                    !.i = 1]
                     ELSE [@ EXCEPT !.pc = "map_unlock"]]
    /\ UNCHANGED <<table, gChannelBuffers, call, scn, gMappingMutex,
                   gBufferMutex, io, stable, committed>>

\* MapPIDToChannel: one store.  A new entry takes .pid, .channel, .active
\* and gMappingCount++ (stores 1 to 4); an entry found .channel and .active
\* (stores 2 and 3).
MapStore(t) ==
    /\ thr[t].pc = "map_store"
    /\ LET slot == thr[t].ch
           k    == thr[t].i
       IN  /\ gMappings' =
                 IF k = 1 THEN [gMappings EXCEPT ![slot].pid = thr[t].pid]
                 ELSE IF k = 2
                 THEN [gMappings EXCEPT ![slot].channel = thr[t].channel]
                 ELSE IF k = 3 THEN [gMappings EXCEPT ![slot].active = 1]
                 ELSE gMappings
           /\ gMappingCount' = IF k = 4 THEN gMappingCount + 1
                               ELSE gMappingCount
           /\ thr' = [thr EXCEPT ![t] =
                         IF k = 4 \/ (k = 3 /\ slot < gMappingCount)
                         THEN [@ EXCEPT !.pc = "map_unlock"]
                         ELSE [@ EXCEPT !.i = k + 1]]
    /\ UNCHANGED <<gChannelBuffers, call, scn, gMappingMutex, gBufferMutex,
                   io, stable, committed>>

\* MapPIDToChannel: pthread_mutex_unlock(&gMappingMutex), the return.
MapUnlock(t) ==
    /\ thr[t].pc = "map_unlock"
    /\ gMappingMutex' = gMappingMutex \ {t}
    /\ committed' = table
    /\ thr' = [thr EXCEPT ![t] = IdleThread]
    /\ UNCHANGED <<table, gChannelBuffers, call, scn, gBufferMutex, io, stable>>

\* A thread calls UnmapPID(pid).
UnmapCall(t, pid) ==
    /\ thr[t].pc = "idle"
    /\ thr' = [thr EXCEPT ![t] = [IdleThread EXCEPT !.pc = "unmap_lock",
                                                    !.pid = pid]]
    /\ UNCHANGED <<table, gChannelBuffers, call, scn, gMappingMutex,
                   gBufferMutex, io, stable, committed>>

\* UnmapPID: pthread_mutex_lock(&gMappingMutex)
UnmapLock(t) ==
    /\ thr[t].pc = "unmap_lock"
    /\ gMappingMutex = {}
    /\ gMappingMutex' = {t}
    /\ thr' = [thr EXCEPT ![t] = [@ EXCEPT !.pc = "unmap_cs"]]
    /\ UNCHANGED <<table, gChannelBuffers, call, scn, gBufferMutex, io,
                   stable, committed>>

\* UnmapPID: the scan, the one store to .active, the unlock, the return.
UnmapBody(t) ==
    /\ thr[t].pc = "unmap_cs"
    /\ gMappings' = UnmapResult(gMappings, gMappingCount, thr[t].pid).maps
    /\ gMappingMutex' = gMappingMutex \ {t}
    /\ committed' = <<gMappings', gMappingCount>>
    /\ thr' = [thr EXCEPT ![t] = IdleThread]
    /\ UNCHANGED <<gMappingCount, gChannelBuffers, call, scn, gBufferMutex,
                   io, stable>>

\* Thread t calls RouteAudioToChannel(t, ThreadChunk(t), BUFFER_FRAMES):
\* the clamp.
RouteCall(t) ==
    /\ thr[t].pc = "idle"
    /\ thr' = [thr EXCEPT ![t] =
                  [IdleThread EXCEPT !.pc = "rt_lock", !.pid = t,
                                     !.frames = ClampFrames(BUFFER_FRAMES)]]
    /\ UNCHANGED <<table, gChannelBuffers, call, scn, gMappingMutex,
                   gBufferMutex, io, stable, committed>>

\* RouteLockTable without the lock: the lookup starts at once.
RouteLockTable_Skipped(t) ==
    /\ thr[t].pc = "rt_lock"
    /\ thr' = [thr EXCEPT ![t] = [@ EXCEPT !.pc = "rt_lookup"]]
    /\ UNCHANGED <<table, gChannelBuffers, call, scn, gMappingMutex,
                   gBufferMutex, io, stable, committed>>

\* RouteAudioToChannel: pthread_mutex_lock(&gMappingMutex)
RouteLockTable(t) ==
    /\ thr[t].pc = "rt_lock"
    /\ gMappingMutex = {}
    /\ gMappingMutex' = {t}
    /\ thr' = [thr EXCEPT ![t] = [@ EXCEPT !.pc = "rt_lookup"]]
    /\ UNCHANGED <<table, gChannelBuffers, call, scn, gBufferMutex, io,
                   stable, committed>>

\* RouteLookup without the unlock: the thread goes on with gMappingMutex.
RouteLookup_KeepsLock(t) ==
    /\ thr[t].pc = "rt_lookup"
    /\ LET ch == LookupChannel(gMappings, gMappingCount, thr[t].pid, 0) IN
          thr' = [thr EXCEPT ![t] =
                     IF ChannelInRange(ch)
                     THEN [@ EXCEPT !.pc = "rt_lockbuf", !.ch = ch]
                     ELSE IdleThread]
    /\ UNCHANGED <<table, gChannelBuffers, call, scn, gMappingMutex,
                   gBufferMutex, io, stable, committed>>

\* RouteAudioToChannel: the lookup loop, the unlock, the range check.
RouteLookup(t) ==
    /\ thr[t].pc = "rt_lookup"
    /\ LET ch == LookupChannel(gMappings, gMappingCount, thr[t].pid, 0) IN
          thr' = [thr EXCEPT ![t] =
                     IF ChannelInRange(ch)
                     THEN [@ EXCEPT !.pc = "rt_lockbuf", !.ch = ch]
                     ELSE IdleThread]
    /\ gMappingMutex' = gMappingMutex \ {t}
    /\ UNCHANGED <<table, gChannelBuffers, call, scn, gBufferMutex, io,
                   stable, committed>>

\* RouteLockBuffer without the lock: the copy starts at once.
RouteLockBuffer_Skipped(t) ==
    /\ thr[t].pc = "rt_lockbuf"
    /\ thr' = [thr EXCEPT ![t] = [@ EXCEPT !.pc = "rt_copy", !.i = 0]]
    /\ UNCHANGED <<table, gChannelBuffers, call, scn, gMappingMutex,
                   gBufferMutex, io, stable, committed>>

\* RouteAudioToChannel: pthread_mutex_lock(&gBufferMutex)
RouteLockBuffer(t) ==
    /\ thr[t].pc = "rt_lockbuf"
    /\ gBufferMutex = {}
    /\ gBufferMutex' = {t}
    /\ thr' = [thr EXCEPT ![t] = [@ EXCEPT !.pc = "rt_copy", !.i = 0]]
    /\ UNCHANGED <<table, gChannelBuffers, call, scn, gMappingMutex, io,
                   stable, committed>>

\* RouteAudioToChannel: memcpy, one sample.
RouteCopy(t) ==
    /\ thr[t].pc = "rt_copy"
    /\ thr[t].i < thr[t].frames
    /\ gChannelBuffers' = [gChannelBuffers EXCEPT
                              ![thr[t].ch][thr[t].i] = ThreadChunk(t)[thr[t].i]]
    /\ thr' = [thr EXCEPT ![t] = [@ EXCEPT !.i = @ + 1]]
    /\ UNCHANGED <<table, call, scn, gMappingMutex, gBufferMutex, io, stable,
                   committed>>

\* RouteUnlockBuffer without the unlock: the call returns with the mutex.
RouteUnlockBuffer_Forgotten(t) ==
    /\ thr[t].pc = "rt_copy"
    /\ thr[t].i >= thr[t].frames
    /\ stable' = gChannelBuffers
    /\ thr' = [thr EXCEPT ![t] = IdleThread]
    /\ UNCHANGED <<table, gChannelBuffers, call, scn, gMappingMutex,
                   gBufferMutex, io, committed>>

\* RouteAudioToChannel: memcpy is done, pthread_mutex_unlock(&gBufferMutex)
RouteUnlockBuffer(t) ==
    /\ thr[t].pc = "rt_copy"
    /\ thr[t].i >= thr[t].frames
    /\ gBufferMutex' = gBufferMutex \ {t}
    /\ stable' = gChannelBuffers
    /\ thr' = [thr EXCEPT ![t] = IdleThread]
    /\ UNCHANGED <<table, gChannelBuffers, call, scn, gMappingMutex, io,
                   committed>>

\* The host calls PlugIn_DoIOOperation with a buffer (not NULL).
IoCall(inIOBufferFrameSize, ioMainBuffer) ==
    /\ io.pc = "idle"
    /\ io' = [pc |-> "io_lock", frames |-> inIOBufferFrameSize,
              out |-> ioMainBuffer]
    /\ UNCHANGED <<table, gChannelBuffers, call, scn, gMappingMutex,
                   gBufferMutex, thr, stable, committed>>

\* IoLock on the wrong mutex: pthread_mutex_lock(&gMappingMutex)
IoLock_OnMappingMutex ==
    /\ io.pc = "io_lock"
    /\ gMappingMutex = {}
    /\ gMappingMutex' = {IoThread}
    /\ io' = [io EXCEPT !.pc = "io_mix"]
    /\ UNCHANGED <<table, gChannelBuffers, call, scn, gBufferMutex, thr,
                   stable, committed>>

\* PlugIn_DoIOOperation: pthread_mutex_lock(&gBufferMutex)
IoLock ==
    /\ io.pc = "io_lock"
    /\ gBufferMutex = {}
    /\ gBufferMutex' = {IoThread}
    /\ io' = [io EXCEPT !.pc = "io_mix"]
    /\ UNCHANGED <<table, gChannelBuffers, call, scn, gMappingMutex, thr,
                   stable, committed>>

\* PlugIn_DoIOOperation: the memset and the sum over the channels.
IoMix ==
    /\ io.pc = "io_mix"
    /\ io' = [io EXCEPT !.pc = "io_unlock",
                        !.out = MixResult(gChannelBuffers, io.out, io.frames)]
    /\ UNCHANGED <<table, gChannelBuffers, call, scn, gMappingMutex,
                   gBufferMutex, thr, stable, committed>>

\* PlugIn_DoIOOperation: pthread_mutex_unlock(&gBufferMutex), the return.
IoUnlock ==
    /\ io.pc = "io_unlock"
    /\ gBufferMutex' = gBufferMutex \ {IoThread}
    /\ io' = IdleIo
    /\ UNCHANGED <<table, gChannelBuffers, call, scn, gMappingMutex, thr,
                   stable, committed>>

ConcNext ==
    \/ \E t \in Producers, pid \in Producers, channel \in Chans :
          MapCall(t, pid, channel)
    \/ \E t \in Producers : MapLock(t)
    \/ \E t \in Producers : MapScan(t)
    \/ \E t \in Producers : MapStore(t)
    \/ \E t \in Producers : MapUnlock(t)
    \/ \E t \in Producers, pid \in Producers : UnmapCall(t, pid)
    \/ \E t \in Producers : UnmapLock(t)
    \/ \E t \in Producers : UnmapBody(t)
    \/ \E t \in Producers : RouteCall(t)
    \/ \E t \in Producers : RouteLockTable(t)
    \/ \E t \in Producers : RouteLookup(t)
    \/ \E t \in Producers : RouteLockBuffer(t)
    \/ \E t \in Producers : RouteCopy(t)
    \/ \E t \in Producers : RouteUnlockBuffer(t)
    \/ IoCall(MaxFrames, StaleBuffer)
    \/ IoLock
    \/ IoMix
    \/ IoUnlock

ConcSpec == Init /\ [][ConcNext]_vars

----------------------------------------------------------------------------
\* LiveSpec: the same steps under fair scheduling.  Each producer is one
\* process with a channel of its own: it registers, unregisters and
\* deposits as itself.  A thread inside a call goes on running (weak
\* fairness of its steps), and a thread waiting at pthread_mutex_lock gets
\* the mutex if it is free again and again (strong fairness of the lock
\* steps).  No thread has to make a call.

LiveNext ==
    \/ \E t \in Producers : MapCall(t, t, t - 1)
    \/ \E t \in Producers : MapLock(t)
    \/ \E t \in Producers : MapScan(t)
    \/ \E t \in Producers : MapStore(t)
    \/ \E t \in Producers : MapUnlock(t)
    \/ \E t \in Producers : UnmapCall(t, t)
    \/ \E t \in Producers : UnmapLock(t)
    \/ \E t \in Producers : UnmapBody(t)
    \/ \E t \in Producers : RouteCall(t)
    \/ \E t \in Producers : RouteLockTable(t)
    \/ \E t \in Producers : RouteLookup(t)
    \/ \E t \in Producers : RouteLockBuffer(t)
    \/ \E t \in Producers : RouteCopy(t)
    \/ \E t \in Producers : RouteUnlockBuffer(t)
    \/ IoCall(MaxFrames, StaleBuffer)
    \/ IoLock
    \/ IoMix
    \/ IoUnlock

\* The steps of producer t that wait for nothing.
Run(t) ==
    \/ MapScan(t) \/ MapStore(t) \/ MapUnlock(t)
    \/ UnmapBody(t)
    \/ RouteLookup(t) \/ RouteCopy(t) \/ RouteUnlockBuffer(t)

\* The steps of producer t that take a mutex.
Acquire(t) ==
    MapLock(t) \/ UnmapLock(t) \/ RouteLockTable(t) \/ RouteLockBuffer(t)

Fairness ==
    /\ \A t \in Producers : WF_vars(Run(t)) /\ SF_vars(Acquire(t))
    /\ WF_vars(IoMix \/ IoUnlock)
    /\ SF_vars(IoLock)

LiveSpec == Init /\ [][LiveNext]_vars /\ Fairness

----------------------------------------------------------------------------
\* Properties of the routing table.

\* The slots in use that hold process p.
EntriesOf(p) == {i \in 0 .. (gMappingCount - 1) : gMappings[i].pid = p}
\* The slots of the whole array that hold an active entry of process p.
ActiveEntriesOf(p) ==
    {i \in 0 .. (MAX_PID_MAPPINGS - 1) :
        gMappings[i].pid = p /\ gMappings[i].active # 0}

\* C1: the table holds at most one active entry per process id; when
\* MapPIDToChannel(p, c2) finds p registered already (it prints "Updated"),
\* it leaves exactly one active entry for p, and its channel is c2.
C1_OneActiveEntryPerPid ==
    /\ \A p \in Pids : Cardinality(ActiveEntriesOf(p)) <= 1
    /\ (call.op = "MapPIDToChannel" /\ call.log = "Updated") =>
          \E i \in 0 .. (MAX_PID_MAPPINGS - 1) :
              /\ ActiveEntriesOf(call.pid) = {i}
              /\ gMappings[i].channel = call.channel

\* A second registration of a process, while another process is registered
\* too.
C1_Witness ==
    /\ call.op = "MapPIDToChannel" /\ call.log = "Updated"
    /\ gMappingCount = MAX_PID_MAPPINGS
    /\ \A i \in 0 .. (MAX_PID_MAPPINGS - 1) : gMappings[i].active # 0

\* C2: a registration that finds the table full and the process new
\* returns TableFull to its caller; every other registration succeeds.
C2_TableFullObservable ==
    call.op = "MapPIDToChannel" =>
        IF EntriesOf(call.pid) = {}
        THEN call.ret = "TableFull"
        ELSE call.ret # "TableFull" /\ ActiveEntriesOf(call.pid) # {}

\* C3: UnmapPID(p) for a process with no active entry (never registered, or
\* unregistered already) returns normally and leaves the table as it was:
\* every entry's pid, channel and active flag, and the entry count.  So a
\* second UnmapPID(p) leaves the table the first one left.
C3_UnmapInactiveIsNoOp ==
    [][\A p \in Pids :
          (UnmapPID(p) /\ (ActiveEntriesOf(p) = {} \/
                           (call.op = "UnmapPID" /\ call.pid = p))) =>
              /\ gMappings' = gMappings
              /\ gMappingCount' = gMappingCount
              /\ call'.ret = "void"]_vars

\* UnmapPID has returned, for a process never registered and for one
\* unregistered before, with the table not empty.
C3_Witness ==
    /\ call.op = "UnmapPID"
    /\ gMappingCount > 0
    /\ ActiveEntriesOf(call.pid) = {}
    /\ \E i \in 0 .. (gMappingCount - 1) : gMappings[i].channel # 0

----------------------------------------------------------------------------
\* Properties of the buffer bank and the mix.  A step is a call of
\* RouteAudioToChannel exactly when call' names it, with its arguments.

Min2(a, b) == IF a < b THEN a ELSE b

\* The channel of p's active entry, -1 when p has none.
ChannelOf(p) ==
    IF ActiveEntriesOf(p) = {} THEN -1
    ELSE gMappings[CHOOSE i \in ActiveEntriesOf(p) : TRUE].channel

\* A chunk as a channel buffer holds it: cut at BUFFER_FRAMES, zeros after
\* its last sample.
ZeroPadded(S) == [i \in Frames |-> IF i < Length(S) THEN S[i] ELSE 0]

\* The sum of sample i over the channel buffers of the set cs.
RECURSIVE SumOver(_, _, _)
SumOver(bank, cs, i) ==
    IF cs = {} THEN 0
    ELSE LET c == CHOOSE x \in cs : TRUE
         IN  bank[c][i] + SumOver(bank, cs \ {c}, i)

\* C4: in a scenario of one process (buffers zero, p registered to a
\* channel in range, one deposit of S with n samples, then the mix of m
\* frames), output sample i is S[i] for every i below n, BUFFER_FRAMES
\* and m.
C4_DepositThenProduce ==
    (scn.phase = "done" /\ Len(scn.regs) = 1) =>
        LET S == scn.deps[1].buffer IN
        \A i \in 0 .. (Min2(Min2(Length(S), BUFFER_FRAMES), call.frames) - 1) :
            call.out[i] = S[i]

\* The scenario with a chunk longer than a channel buffer, mixed in full.
C4_Witness ==
    /\ scn.phase = "done" /\ Len(scn.regs) = 1
    /\ Length(scn.deps[1].buffer) > BUFFER_FRAMES
    /\ call.frames >= BUFFER_FRAMES
    /\ call.out[0] # call.out[1]

\* C5: a deposit of more than BUFFER_FRAMES samples by a process with a
\* channel in range leaves the bank as it was but for that channel's
\* buffer, which holds the first BUFFER_FRAMES samples of the chunk: no
\* later sample of the chunk is written anywhere.
C5_DepositClamped ==
    [][(call'.op = "RouteAudioToChannel" /\ call'.frames > BUFFER_FRAMES
          /\ ChannelOf(call'.pid) \in Chans) =>
              gChannelBuffers' =
                  [gChannelBuffers EXCEPT ![ChannelOf(call'.pid)] =
                      [i \in Frames |-> call'.buffer[i]]]]_vars

\* A chunk longer than a channel buffer has been deposited to channel 0,
\* while channel 1 holds other samples.
C5_Witness ==
    /\ call.op = "RouteAudioToChannel"
    /\ call.frames > BUFFER_FRAMES
    /\ ChannelOf(call.pid) = 0
    /\ gChannelBuffers[0][0] # 0
    /\ gChannelBuffers[1][0] # gChannelBuffers[0][0]
    /\ gChannelBuffers[1][0] # 0

\* C6: a deposit by a process with no active entry leaves every channel
\* buffer unchanged, so the mix of the whole bank before it and the one
\* after it are equal.
C6_UnroutedDepositDropped ==
    [][(call'.op = "RouteAudioToChannel" /\ ActiveEntriesOf(call'.pid) = {}) =>
              /\ gChannelBuffers' = gChannelBuffers
              /\ \A buf \in HostBuffers :
                    MixResult(gChannelBuffers', buf, BUFFER_FRAMES) =
                    MixResult(gChannelBuffers, buf, BUFFER_FRAMES)]_vars

\* An unregistered process has deposited samples, its former channel's
\* buffer holding samples already.
C6_Witness ==
    /\ call.op = "RouteAudioToChannel"
    /\ call.frames > 0
    /\ ActiveEntriesOf(call.pid) = {}
    /\ \E i \in EntriesOf(call.pid) :
          /\ gMappings[i].channel \in Chans
          /\ gChannelBuffers[gMappings[i].channel][0] # 0

\* C7: in a scenario of two processes (buffers zero, registered to
\* distinct channels, one deposit each), every output sample of the mix is
\* the sum of the two chunks' samples, a chunk counting as zero from its
\* end on; and the bank, so the mix, is the one the two deposits leave when
\* made in the other order.
C7_MixOfTwoDeposits ==
    (scn.phase = "done" /\ Len(scn.regs) = MAX_CHANNELS) =>
        LET d1 == scn.deps[1]
            d2 == scn.deps[2]
            zero == [c \in Chans |-> [i \in Frames |-> 0]]
            swapped1 == RouteResult(gMappings, gMappingCount, zero,
                                    d2.pid, d2.buffer, Length(d2.buffer)).bank
            swapped2 == RouteResult(gMappings, gMappingCount, swapped1,
                                    d1.pid, d1.buffer, Length(d1.buffer)).bank
        IN  /\ \A i \in 0 .. (Min2(BUFFER_FRAMES, call.frames) - 1) :
                  call.out[i] = ZeroPadded(d1.buffer)[i]
                                + ZeroPadded(d2.buffer)[i]
            /\ gChannelBuffers = swapped2

\* Two chunks of different lengths and samples, the second process to
\* register depositing first, mixed in full.
C7_Witness ==
    /\ scn.phase = "done" /\ Len(scn.regs) = MAX_CHANNELS
    /\ scn.deps[1].pid = scn.regs[2].pid
    /\ Length(scn.deps[1].buffer) = 1
    /\ Length(scn.deps[2].buffer) >= BUFFER_FRAMES
    /\ scn.deps[1].buffer[0] # scn.deps[2].buffer[0]
    /\ call.frames >= BUFFER_FRAMES

\* C8: the copy of a deposit and the sum of a mix exclude each other: while
\* the I/O thread is between its lock and its unlock no producer is inside
\* its memcpy, and the output the mix leaves is the sum of the channel
\* buffers as the last complete memcpy left them.
C8_NoTornRead ==
    /\ io.pc \in {"io_mix", "io_unlock"} =>
          \A t \in Producers : thr[t].pc # "rt_copy"
    /\ io.pc = "io_unlock" =>
          \A i \in Frames : io.out[i] = SumOver(stable, Chans, i)

\* A mix has summed two deposited chunks while a producer waits for the
\* buffer mutex with its next chunk.
C8_Witness ==
    /\ io.pc = "io_unlock"
    /\ \A c \in Chans : gChannelBuffers[c][0] # 0
    /\ \E t \in Producers : thr[t].pc = "rt_lockbuf"

\* C9: after a deposit by a process with a channel in range, that
\* channel's buffer holds the chunk (cut at BUFFER_FRAMES) and zeros in
\* every position after the chunk's last sample.
C9_BufferIsLastChunkZeroPadded ==
    [][(call'.op = "RouteAudioToChannel" /\ ChannelOf(call'.pid) \in Chans) =>
          gChannelBuffers'[ChannelOf(call'.pid)] =
              ZeroPadded(call'.buffer)]_vars

----------------------------------------------------------------------------
\* Properties of the locks.

\* C11: PlugIn_DoIOOperation neither takes gMappingMutex nor waits for it.
\* The I/O thread never holds it, and in every state where a thread holds
\* it the I/O thread's next step is enabled unless a producer holds
\* gBufferMutex, and that producer's next step is enabled: the call can
\* start, take the buffer mutex once it is free, mix and return while the
\* holder of gMappingMutex stays where it is.
C11_ProduceIgnoresMappingMutex ==
    /\ IoThread \notin gMappingMutex
    /\ gMappingMutex # {} =>
          /\ io.pc = "idle" => ENABLED IoCall(MaxFrames, StaleBuffer)
          /\ (io.pc = "io_lock" /\ gBufferMutex = {}) => ENABLED IoLock
          /\ io.pc = "io_mix" => ENABLED IoMix
          /\ io.pc = "io_unlock" => ENABLED IoUnlock
          /\ \A t \in Producers :
                t \in gBufferMutex =>
                    /\ t \notin gMappingMutex
                    /\ ENABLED (RouteCopy(t) \/ RouteUnlockBuffer(t))

\* The mix is done, between its lock and its unlock, while a producer is in
\* the middle of the stores of MapPIDToChannel, holding gMappingMutex, and
\* the other producer waits for that mutex.
C11_Witness ==
    /\ io.pc = "io_unlock"
    /\ \E t \in Producers :
          /\ gMappingMutex = {t}
          /\ thr[t].pc = "map_store" /\ thr[t].i = 3
    /\ \E t \in Producers : thr[t].pc = "rt_lock"

\* C12: under fair scheduling every call of PlugIn_DoIOOperation that has
\* started (it waits for gBufferMutex) returns, and every thread that
\* holds gBufferMutex gives it up.
C12_ProduceCompletes ==
    /\ (io.pc = "io_lock") ~> (io.pc = "idle")
    /\ \A t \in Producers \cup {IoThread} :
          (t \in gBufferMutex) ~> (t \notin gBufferMutex)

\* PlugIn_DoIOOperation waits for gBufferMutex, which a producer holds in
\* the middle of its memcpy, while the other producer holds gMappingMutex.
C12_Witness ==
    /\ io.pc = "io_lock"
    /\ \E t \in Producers :
          gBufferMutex = {t} /\ thr[t].pc = "rt_copy" /\ thr[t].i = 1
    /\ gMappingMutex # {}

\* C13: the lookup of RouteAudioToChannel reads the table as the last
\* complete MapPIDToChannel or UnmapPID left it: whenever a thread is at
\* its lookup loop, every entry and the count are what that call left, so
\* no entry it reads has fields of two calls, or some fields of a new entry.
C13_LookupReadsCommittedTable ==
    \A t \in Producers :
        thr[t].pc = "rt_lookup" => <<gMappings, gMappingCount>> = committed

\* A producer is at its lookup, its process unregistered before, while the
\* other thread waits to register that process to another channel.
C13_Witness ==
    \E t \in Producers, u \in Producers :
        /\ thr[t].pc = "rt_lookup"
        /\ thr[u].pc = "map_lock" /\ thr[u].pid = t
        /\ \E i \in 0 .. (gMappingCount - 1) :
              /\ gMappings[i].pid = t /\ gMappings[i].active = 0
              /\ gMappings[i].channel # thr[u].channel

\* C14: whenever RouteAudioToChannel for process p is about to copy a
\* sample into channel c's buffer, the table, as the last complete
\* MapPIDToChannel or UnmapPID left it, holds an active entry of p with
\* channel c.
C14_DepositWritesCurrentChannel ==
    \A t \in Producers :
        (thr[t].pc = "rt_copy" /\ thr[t].i < thr[t].frames) =>
            LookupChannel(committed[1], committed[2], thr[t].pid, 0)
                = thr[t].ch

----------------------------------------------------------------------------
\* Properties of the table's capacity and of what the table calls leave
\* alone.

\* C15: MapPIDToChannel(p, c) with gMappingCount at MAX_PID_MAPPINGS and p
\* in no entry leaves every entry and the count as they were, and a
\* RouteAudioToChannel for p after it leaves the bank as it was.
C15_FullTableUnchanged ==
    [][(call'.op = "MapPIDToChannel" /\ gMappingCount = MAX_PID_MAPPINGS
          /\ EntriesOf(call'.pid) = {}) =>
              /\ gMappings' = gMappings
              /\ gMappingCount' = gMappingCount
              /\ \A buffer \in FlatChunks :
                    RouteResult(gMappings', gMappingCount', gChannelBuffers',
                                call'.pid, buffer, Length(buffer)).bank
                        = gChannelBuffers']_vars

\* MapPIDToChannel has returned without adding its process to a full
\* table, whose entries are active and hold a channel other than the one
\* asked for.
C15_Witness ==
    /\ call.op = "MapPIDToChannel" /\ call.log = ""
    /\ call.channel \in Chans
    /\ gMappingCount = MAX_PID_MAPPINGS
    /\ EntriesOf(call.pid) = {}
    /\ \A i \in 0 .. (MAX_PID_MAPPINGS - 1) :
          gMappings[i].active = 1 /\ gMappings[i].channel # call.channel

C17_EntryChannelsInRange ==
    \A i \in 0 .. (gMappingCount - 1) : gMappings[i].channel \in Chans

\* C18: no process is in two entries of the table, active or not; and
\* MapPIDToChannel(p, c) for a process that is in an entry (an unregistered
\* one too) leaves that entry active with channel c, every other entry and
\* the count as they were.
C18_OneSlotPerPid ==
    [][/\ \A p \in Pids : Cardinality(EntriesOf(p)') <= 1
       /\ (call'.op = "MapPIDToChannel" /\ EntriesOf(call'.pid) # {}) =>
             /\ gMappingCount' = gMappingCount
             /\ \E i \in EntriesOf(call'.pid) :
                   gMappings' = [gMappings EXCEPT ![i] =
                                    [pid |-> call'.pid,
                                     channel |-> call'.channel,
                                     active |-> 1]]]_vars

\* MapPIDToChannel has registered anew a process that was unregistered,
\* to another channel than the one the other entry holds.
C18_Witness ==
    /\ call.op = "MapPIDToChannel" /\ call.log = "Updated"
    /\ ~call.wasActive
    /\ gMappingCount = MAX_PID_MAPPINGS
    /\ \E i \in EntriesOf(call.pid) :
          \A j \in 0 .. (gMappingCount - 1) :
              j # i => gMappings[j].channel # gMappings[i].channel

\* C19: gMappingCount never goes down and never passes MAX_PID_MAPPINGS,
\* and once it is MAX_PID_MAPPINGS the processes in the table stay the
\* same for ever: no call puts another process in an entry, whether the
\* entries are active or not.
C19_CountMonotoneAndBounded ==
    [][/\ gMappingCount' >= gMappingCount
       /\ gMappingCount' <= MAX_PID_MAPPINGS
       /\ gMappingCount = MAX_PID_MAPPINGS =>
             \A i \in 0 .. (MAX_PID_MAPPINGS - 1) :
                 gMappings'[i].pid = gMappings[i].pid]_vars

\* Every entry of the full table is inactive, and MapPIDToChannel for
\* another process has returned without an entry for it.
C19_Witness ==
    /\ call.op = "MapPIDToChannel" /\ call.log = ""
    /\ call.channel \in Chans
    /\ gMappingCount = MAX_PID_MAPPINGS
    /\ \A i \in 0 .. (MAX_PID_MAPPINGS - 1) :
          gMappings[i].active = 0 /\ gMappings[i].pid # call.pid

\* C20: no thread holds gMappingMutex and gBufferMutex at once, and the
\* threads never block each other for good: whenever a thread is inside a
\* call, some thread inside a call has a step to take.
C20_NoDoubleLockNoDeadlock ==
    /\ gMappingMutex \cap gBufferMutex = {}
    /\ Cardinality(gMappingMutex) <= 1 /\ Cardinality(gBufferMutex) <= 1
    /\ ((\E t \in Producers : thr[t].pc # "idle") \/ io.pc # "idle") =>
          ENABLED (\/ \E t \in Producers : Run(t) \/ Acquire(t)
                   \/ IoLock \/ IoMix \/ IoUnlock)

\* Every thread is inside a call: one producer copies with gBufferMutex,
\* the other holds gMappingMutex at its lookup, PlugIn_DoIOOperation waits.
C20_Witness ==
    /\ io.pc = "io_lock"
    /\ \E t \in Producers, u \in Producers :
          /\ t # u
          /\ gBufferMutex = {t} /\ thr[t].pc = "rt_copy"
          /\ gMappingMutex = {u} /\ thr[u].pc = "rt_lookup"

====
